---- MODULE Spec2Model ----
(***************************************************************************)
(* Model of the Huffman codec of src/src/main.rs: frequency table, tree    *)
(* construction on std's BinaryHeap, code generation, bit packing, the     *)
(* container written by compress_file and its parsing by decompress_file.  *)
(*                                                                         *)
(* Representation.  A byte is a number in 0..255.  A String of '0'/'1'     *)
(* characters is the sequence of its code units (48 and 49).  An Option is *)
(* a sequence of length 0 (None) or 1 (Some).  A HashMap is a function     *)
(* whose domain is its key set; its iteration order is not fixed by the    *)
(* program and is a nondeterministic choice wherever the code iterates.    *)
(* usize is 64 bits wide: no value of the model comes near its limit.      *)
(***************************************************************************)
EXTENDS Integers, Sequences, FiniteSets, TLC

\* ------------------------------------------------------------------ bounds
MaxLen == 4

Alphabet == {97, 98, 99}

\* "aaaabbbcc", the example scenario, and six distinct bytes
ExampleAbc == <<97, 97, 97, 97, 98, 98, 98, 99, 99>>

ExampleSix == <<97, 98, 99, 100, 101, 102>>

ExampleFour == <<97, 98, 99, 100, 100, 100>>

Inputs ==
  UNION {[1..n -> Alphabet] : n \in 0..MaxLen}
    \cup {ExampleAbc, ExampleSix, ExampleFour}

\* ----------------------------------------------------------------- helpers
None == <<>>

Some(x) == <<x>>

Range(s) == {s[i] : i \in DOMAIN s}

At(d, i) == d[i + 1]

Put(d, i, x) == [d EXCEPT ![i + 1] = x]

RECURSIVE Concat(_)
Concat(ss) == IF ss = <<>> THEN <<>> ELSE Head(ss) \o Concat(Tail(ss))

Perms(S) ==
  {p \in [1..Cardinality(S) -> S] : \A i, j \in DOMAIN p : p[i] = p[j] => i = j}

IsPrefix(p, s) == Len(p) <= Len(s) /\ SubSeq(s, 1, Len(p)) = p

\* -------------------------------------------------------------------- Node
Node(freq, char_val, left, right) ==
  [freq |-> freq, char_val |-> char_val, left |-> left, right |-> right]

Leaf(byte, freq) == Node(freq, Some(byte), None, None)

UsizeCmp(a, b) == IF a < b THEN "Less" ELSE IF a = b THEN "Equal" ELSE "Greater"

\* Option<u8>: None sorts before every Some
OptionCmp(a, b) ==
  IF a = None
    THEN (IF b = None THEN "Equal" ELSE "Less")
    ELSE (IF b = None THEN "Greater" ELSE UsizeCmp(a[1], b[1]))

NodeCmpMax(self, other) ==
  LET f == UsizeCmp(self.freq, other.freq)
  IN  IF f # "Equal" THEN f ELSE OptionCmp(self.char_val, other.char_val)

NodeCmp(self, other) ==
  LET f == UsizeCmp(other.freq, self.freq)
  IN  IF f # "Equal" THEN f ELSE OptionCmp(self.char_val, other.char_val)

NodeLe(a, b) == NodeCmp(a, b) # "Greater"

\* ------------------------------------------------------- std BinaryHeap
RECURSIVE SiftUpLoop(_, _, _, _)
SiftUpLoop(d, elt, start, pos) ==
  IF pos > start
    THEN LET parent == (pos - 1) \div 2
         IN  IF NodeLe(elt, At(d, parent))
               THEN Put(d, pos, elt)
               ELSE SiftUpLoop(Put(d, pos, At(d, parent)), elt, start, parent)
    ELSE Put(d, pos, elt)

sift_up(d, start, pos) == SiftUpLoop(d, At(d, pos), start, pos)

RECURSIVE SiftDownLoop(_, _, _, _)
SiftDownLoop(d, elt, pos, child) ==
  LET end == Len(d)
      lim == IF end >= 2 THEN end - 2 ELSE 0
  IN  IF child <= lim
        THEN LET c == IF NodeLe(At(d, child), At(d, child + 1))
                        THEN child + 1 ELSE child
             IN  SiftDownLoop(Put(d, pos, At(d, c)), elt, c, 2 * c + 1)
        ELSE IF child = end - 1
               THEN [d |-> Put(Put(d, pos, At(d, child)), child, elt), pos |-> child]
               ELSE [d |-> Put(d, pos, elt), pos |-> pos]

sift_down_to_bottom(d, pos) ==
  LET r == SiftDownLoop(d, At(d, pos), pos, 2 * pos + 1)
  IN  sift_up(r.d, pos, r.pos)

HeapPush(d, x) == sift_up(Append(d, x), 0, Len(d))

\* pop of a non-empty heap: the greatest element and the remaining heap
HeapPop(d) ==
  LET last == d[Len(d)]
      rest == SubSeq(d, 1, Len(d) - 1)
  IN  IF rest = <<>>
        THEN [item |-> last, heap |-> <<>>]
        ELSE [item |-> rest[1], heap |-> sift_down_to_bottom(Put(rest, 0, last), 0)]

\* ------------------------------------------------------- frequency table
build_frequency_table(d) ==
  [b \in Range(d) |-> Cardinality({i \in DOMAIN d : d[i] = b})]

\* --------------------------------------------------------- code table
Ch0 == 48

Ch1 == 49

Insert(m, k, v) == [x \in (DOMAIN m) \cup {k} |-> IF x = k THEN v ELSE m[x]]

LeafCodeNoDefault(prefix) == prefix

LeafCode(prefix) == IF prefix = <<>> THEN <<Ch0>> ELSE prefix

RightPrefixSame(prefix) == Append(prefix, Ch0)

RightPrefix(prefix) == Append(prefix, Ch1)

RECURSIVE generate_codes(_, _, _)
generate_codes(node, prefix, cs) ==
  IF node = None
    THEN cs
    ELSE LET n == node[1]
         IN  IF n.char_val # None
               THEN Insert(cs, n.char_val[1], LeafCode(prefix))
               ELSE generate_codes(n.right, RightPrefix(prefix),
                      generate_codes(n.left, Append(prefix, Ch0), cs))

\* ----------------------------------------------------------- bit packing
Pow2(k) == 2 ^ k

ChunkByte(chunk) ==
  LET RECURSIVE Acc(_)
      Acc(i) == IF i = Len(chunk)
                  THEN 0
                  ELSE (IF chunk[i + 1] = Ch1 THEN Pow2(7 - i) ELSE 0) + Acc(i + 1)
  IN  Acc(0)

RECURSIVE convert_bits_to_bytes_exact(_)
convert_bits_to_bytes_exact(bits) ==
  IF Len(bits) < 8
    THEN <<>>
    ELSE <<ChunkByte(SubSeq(bits, 1, 8))>>
           \o convert_bits_to_bytes_exact(SubSeq(bits, 9, Len(bits)))

RECURSIVE convert_bits_to_bytes(_)
convert_bits_to_bytes(bits) ==
  IF bits = <<>>
    THEN <<>>
    ELSE IF Len(bits) <= 8
           THEN <<ChunkByte(bits)>>
           ELSE <<ChunkByte(SubSeq(bits, 1, 8))>>
                  \o convert_bits_to_bytes(SubSeq(bits, 9, Len(bits)))

\* format!("{:08b}", byte)
ByteBits(byte) ==
  [i \in 1..8 |-> IF (byte \div Pow2(8 - i)) % 2 = 1 THEN Ch1 ELSE Ch0]

convert_bytes_to_bits(bytes) == Concat([i \in DOMAIN bytes |-> ByteBits(bytes[i])])

\* -------------------------------------------------- header serialization
\* little-endian encoding of n in k bytes (to_le_bytes, bincode fixint)
RECURSIVE LeBytes(_, _)
LeBytes(n, k) == IF k = 0 THEN <<>> ELSE <<n % 256>> \o LeBytes(n \div 256, k - 1)

RECURSIVE FromLe(_)
FromLe(bytes) == IF bytes = <<>> THEN 0 ELSE bytes[1] + 256 * FromLe(Tail(bytes))

\* bincode::serialize(&CompressionHeader): the map's length, its entries
\* (key, string length, string bytes) in the map's iteration order, then
\* original_bit_count; every length and usize as 8 little-endian bytes.
SerializeHeader(cs, order, original_bit_count) ==
  LeBytes(Len(order), 8)
    \o Concat([i \in DOMAIN order |->
                 <<order[i]>> \o LeBytes(Len(cs[order[i]]), 8) \o cs[order[i]]])
    \o LeBytes(original_bit_count, 8)

\* bincode::deserialize::<CompressionHeader>: fails when the slice ends
\* early or a string is not UTF-8; bytes after the header are ignored.
RECURSIVE DeserializeEntries(_, _, _, _)
DeserializeEntries(bytes, pos, n, cs) ==
  IF n = 0
    THEN [ok |-> TRUE, pos |-> pos, codes |-> cs]
    ELSE IF pos + 9 > Len(bytes)
           THEN [ok |-> FALSE, pos |-> pos, codes |-> cs]
           ELSE LET key  == bytes[pos + 1]
                    slen == FromLe(SubSeq(bytes, pos + 2, pos + 9))
                    str  == SubSeq(bytes, pos + 10, pos + 9 + slen)
                IN  IF pos + 9 + slen > Len(bytes) \/ \E i \in DOMAIN str : str[i] >= 128
                      THEN [ok |-> FALSE, pos |-> pos, codes |-> cs]
                      ELSE DeserializeEntries(bytes, pos + 9 + slen, n - 1,
                                              Insert(cs, key, str))

DeserializeHeader(bytes) ==
  IF Len(bytes) < 8
    THEN [ok |-> FALSE, codes |-> <<>>, original_bit_count |-> 0]
    ELSE LET e == DeserializeEntries(bytes, 8, FromLe(SubSeq(bytes, 1, 8)), <<>>)
         IN  IF ~e.ok \/ e.pos + 8 > Len(bytes)
               THEN [ok |-> FALSE, codes |-> <<>>, original_bit_count |-> 0]
               ELSE [ok |-> TRUE, codes |-> e.codes,
                     original_bit_count |-> FromLe(SubSeq(bytes, e.pos + 1, e.pos + 8))]

\* ------------------------------------------------------------ container
\* what compress_file writes: length prefix, header, packed payload
Container(header_bytes, compressed_bytes) ==
  LeBytes(Len(header_bytes), 4) \o header_bytes \o compressed_bytes

EncodeBits(d, cs) == Concat([i \in DOMAIN d |-> cs[d[i]]])

\* ----------------------------------------------------------- decompress
TooSmall(len) == len < 4

HeaderOverrunNoPrefix(len, header_len) == len < header_len

HeaderOverrun(len, header_len) == len < 4 + header_len

TruncateNoop(bits, n) == bits

\* String::truncate: no effect when n is not less than the length
Truncate(bits, n) == IF n < Len(bits) THEN SubSeq(bits, 1, n) ELSE bits

\* header.codes.into_iter().map(|(byte, code)| (code, byte)).collect()
ReverseCodes(cs) ==
  [code \in {cs[b] : b \in DOMAIN cs} |-> CHOOSE b \in DOMAIN cs : cs[b] = code]

\* the decode loop: the bytes pushed and the candidate left at the end
RECURSIVE DecodeLoop(_, _, _, _)
DecodeLoop(bits, reverse_codes, current_code, decompressed_data) ==
  IF bits = <<>>
    THEN [data |-> decompressed_data, current_code |-> current_code]
    ELSE LET cur == Append(current_code, Head(bits))
         IN  IF cur \in DOMAIN reverse_codes
               THEN DecodeLoop(Tail(bits), reverse_codes, <<>>,
                               Append(decompressed_data, reverse_codes[cur]))
               ELSE DecodeLoop(Tail(bits), reverse_codes, cur, decompressed_data)

DecResult(result, stage, file, current_code) ==
  [result |-> result, stage |-> stage, file |-> file, current_code |-> current_code]

\* decompress_file on the bytes of its input file.  stage is the last step
\* reached; file is the output file (None while it has not been created);
\* "panic" is an index or a slice past the end of the buffer.
decompress_file(compressed_data) ==
  IF TooSmall(Len(compressed_data))
    THEN DecResult("Compressed file too small", "length", None, <<>>)
    ELSE IF Len(compressed_data) < 4
      THEN DecResult("panic", "header_len", None, <<>>)
    ELSE LET header_len == FromLe(SubSeq(compressed_data, 1, 4))
    IN IF HeaderOverrun(Len(compressed_data), header_len)
      THEN DecResult("Invalid compressed file format", "header_len", None, <<>>)
    ELSE IF 4 + header_len > Len(compressed_data)
      THEN DecResult("panic", "deserialize", None, <<>>)
    ELSE LET header == DeserializeHeader(SubSeq(compressed_data, 5, 4 + header_len))
    IN IF ~header.ok
      THEN DecResult("Deserialization error", "deserialize", None, <<>>)
    ELSE LET reverse_codes == ReverseCodes(header.codes)
             compressed_bytes ==
               SubSeq(compressed_data, 5 + header_len, Len(compressed_data))
             all_bits == Truncate(convert_bytes_to_bits(compressed_bytes),
                                  header.original_bit_count)
             d == DecodeLoop(all_bits, reverse_codes, <<>>, <<>>)
    IN DecResult("Ok", "written", Some(d.data), d.current_code)

\* the buffers decompress_file is run on: the container, its prefixes near
\* both ends, a changed byte of the length prefix, a flipped payload bit
LenVals == {0, 1, 127}

TakeLens(c) == {k \in 0..Len(c) : k <= 5 \/ k >= Len(c) - 2}

Corruptions(c) ==
  {SubSeq(c, 1, k) : k \in TakeLens(c)}
    \cup {[c EXCEPT ![p] = v] : p \in 1..4, v \in LenVals}
    \cup {[c EXCEPT ![Len(c)] = (c[Len(c)] + 128) % 256]}

\* ------------------------------------------------------------------ state
VARIABLES
  pc,                 \* position: start, build, push, merge, encode, compressed, done
  data,               \* compress_file: the bytes read from the input file
  steps,              \* the steps of compress_file that have run
  frequency_table,    \* HashMap<u8, usize>
  pending,            \* entries of frequency_table the push loop has not reached
  heap,               \* BinaryHeap's vector
  merges,             \* iterations of the merge loop so far
  huffman_tree,       \* Option<Box<Node>>
  codes,              \* HashMap<u8, String>
  original_bit_count, \* header.original_bit_count
  out_file,           \* the file compress_file writes (None: not created)
  result,             \* compress_file's result ("" while running)
  compressed_data,    \* decompress_file: the bytes read from its input file
  dec,                \* decompress_file's outcome
  prev                \* codes and payload of an earlier run on the same data

vars ==
  <<pc, data, steps, frequency_table, pending, heap, merges, huffman_tree,
    codes, original_bit_count, out_file, result, compressed_data, dec, prev>>

NoDec == DecResult("", "", None, <<>>)

Init ==
  /\ pc = "start"
  /\ data \in Inputs
  /\ steps = {}
  /\ frequency_table = <<>>
  /\ pending = {}
  /\ heap = <<>>
  /\ merges = 0
  /\ huffman_tree = None
  /\ codes = <<>>
  /\ original_bit_count = 0
  /\ out_file = None
  /\ result = ""
  /\ compressed_data = <<>>
  /\ dec = NoDec
  /\ prev = None

IsEmptyNever(d) == FALSE

IsEmpty(d) == d = <<>>

\* compress_file, lines 106-115: read, reject empty input, count frequencies
CompressStart ==
  /\ pc = "start"
  /\ IF IsEmpty(data)
       THEN /\ result' = "Input file is empty"
            /\ pc' = "done"
            /\ UNCHANGED <<steps, frequency_table>>
       ELSE /\ frequency_table' = build_frequency_table(data)
            /\ steps' = steps \cup {"build_frequency_table"}
            /\ pc' = "build"
            /\ UNCHANGED result
  /\ UNCHANGED <<data, pending, heap, merges, huffman_tree, codes,
                 original_bit_count, out_file, compressed_data, dec, prev>>

\* build_huffman_tree, lines 60-71: empty table, single entry, or the loops
BuildBegin ==
  /\ pc = "build"
  /\ steps' = steps \cup {"build_huffman_tree"}
  /\ IF DOMAIN frequency_table = {}
       THEN /\ result' = "Failed to build Huffman tree"
            /\ pc' = "done"
            /\ UNCHANGED <<pending, huffman_tree>>
       ELSE IF Cardinality(DOMAIN frequency_table) = 1
         THEN /\ huffman_tree' =
                   Some(LET byte == CHOOSE b \in DOMAIN frequency_table : TRUE
                        IN  Leaf(byte, frequency_table[byte]))
              /\ pc' = "encode"
              /\ UNCHANGED <<pending, result>>
         ELSE /\ pending' = DOMAIN frequency_table
              /\ pc' = "push"
              /\ UNCHANGED <<huffman_tree, result>>
  /\ UNCHANGED <<data, frequency_table, heap, merges, codes, original_bit_count,
                 out_file, compressed_data, dec, prev>>

\* lines 73-75: one iteration of the loop over the table, in the map's order
PushLeaf ==
  /\ pc = "push"
  /\ \E byte \in pending :
       /\ heap' = HeapPush(heap, Leaf(byte, frequency_table[byte]))
       /\ pending' = pending \ {byte}
       /\ pc' = IF pending' = {} THEN "merge" ELSE "push"
  /\ UNCHANGED <<data, steps, frequency_table, merges, huffman_tree, codes,
                 original_bit_count, out_file, result, compressed_data, dec, prev>>

CombinedFreqLeft(left, right) == left.freq

CombinedFreq(left, right) == left.freq + right.freq

\* lines 77-85: one iteration of the merge loop
Merge ==
  /\ pc = "merge"
  /\ Len(heap) > 1
  /\ LET p1 == HeapPop(heap)
         p2 == HeapPop(p1.heap)
         left == p1.item
         right == p2.item
         new_node == Node(CombinedFreq(left, right), None, Some(left), Some(right))
     IN  heap' = HeapPush(p2.heap, new_node)
  /\ merges' = merges + 1
  /\ UNCHANGED <<pc, data, steps, frequency_table, pending, huffman_tree, codes,
                 original_bit_count, out_file, result, compressed_data, dec, prev>>

\* line 87: the loop has ended, the last node is the root
PopRoot ==
  /\ pc = "merge"
  /\ Len(heap) <= 1
  /\ huffman_tree' = IF heap = <<>> THEN None ELSE Some(HeapPop(heap).item)
  /\ heap' = IF heap = <<>> THEN heap ELSE HeapPop(heap).heap
  /\ pc' = "encode"
  /\ UNCHANGED <<data, steps, frequency_table, pending, merges, codes,
                 original_bit_count, out_file, result, compressed_data, dec, prev>>

\* compress_file, lines 116-147: codes, bit string, header, the output file
Encode ==
  /\ pc = "encode"
  /\ IF huffman_tree = None
       THEN /\ result' = "Failed to build Huffman tree"
            /\ pc' = "done"
            /\ UNCHANGED <<steps, codes, original_bit_count, out_file>>
       ELSE LET cs == generate_codes(huffman_tree, <<>>, <<>>)
                compressed_bits == EncodeBits(data, cs)
            IN  /\ codes' = cs
                /\ original_bit_count' = Len(compressed_bits)
                /\ \E order \in Perms(DOMAIN cs) :
                     out_file' =
                       Some(Container(
                              SerializeHeader(cs, order, Len(compressed_bits)),
                              convert_bits_to_bytes(compressed_bits)))
                /\ steps' = steps \cup {"generate_codes", "create"}
                /\ result' = "Ok"
                /\ pc' = "compressed"
  /\ UNCHANGED <<data, frequency_table, pending, heap, merges, huffman_tree,
                 compressed_data, dec, prev>>

\* decompress_file on the container or on a damaged copy of it
Decompress ==
  /\ pc = "compressed"
  /\ \E buf \in Corruptions(out_file[1]) :
       /\ compressed_data' = buf
       /\ dec' = decompress_file(buf)
  /\ pc' = "done"
  /\ UNCHANGED <<data, steps, frequency_table, pending, heap, merges,
                 huffman_tree, codes, original_bit_count, out_file, result, prev>>

\* the payload of a container compress_file wrote
PayloadOf(c) == SubSeq(c, 5 + FromLe(SubSeq(c, 1, 4)), Len(c))

\* compress_file is run a second time on the same input
Again ==
  /\ pc = "compressed"
  /\ prev = None
  /\ prev' = Some([codes |-> codes, payload |-> PayloadOf(out_file[1])])
  /\ pc' = "start"
  /\ steps' = {}
  /\ frequency_table' = <<>>
  /\ pending' = {}
  /\ heap' = <<>>
  /\ merges' = 0
  /\ huffman_tree' = None
  /\ codes' = <<>>
  /\ original_bit_count' = 0
  /\ out_file' = None
  /\ result' = ""
  /\ UNCHANGED <<data, compressed_data, dec>>

Next ==
  \/ CompressStart
  \/ BuildBegin
  \/ PushLeaf
  \/ Merge
  \/ PopRoot
  \/ Encode
  \/ Decompress

Spec == Init /\ [][Next]_vars

NextTwice ==
  \/ CompressStart
  \/ BuildBegin
  \/ PushLeaf
  \/ Merge
  \/ PopRoot
  \/ Encode
  \/ Again

SpecTwice == Init /\ [][NextTwice]_vars

\* ================================================================ claims
Compressed == pc \in {"compressed", "done"} /\ result = "Ok"

\* decompress_file has run on exactly what compress_file wrote
DecodedIntact == pc = "done" /\ result = "Ok" /\ compressed_data = out_file[1]

Distinct == Cardinality(Range(data))

\* C1: compress then decompress of any non-empty buffer succeeds and gives
\* back the buffer, byte for byte; the container is the 4-byte length
\* prefix, the header and the packed payload.
RoundTrip ==
  DecodedIntact =>
    /\ data # <<>>
    /\ dec.result = "Ok"
    /\ dec.file = Some(data)
    /\ dec.current_code = <<>>
    /\ LET c == out_file[1]
           header_len == FromLe(SubSeq(c, 1, 4))
           header == DeserializeHeader(SubSeq(c, 5, 4 + header_len))
       IN  /\ Len(c) >= 4 + header_len
           /\ header.ok
           /\ header.codes = codes
           /\ header.original_bit_count = original_bit_count

RoundTripWitness ==
  /\ DecodedIntact
  /\ Distinct >= 3
  /\ Len(PayloadOf(out_file[1])) >= 2
  /\ dec.file = Some(data)

\* C2: two runs of compress on the same buffer give the same code table
\* and the same payload bytes, whatever the order the frequency table is
\* iterated in and however the heap places nodes that compare equal.
Determinism ==
  (pc = "compressed" /\ prev # None) =>
    /\ codes = prev[1].codes
    /\ PayloadOf(out_file[1]) = prev[1].payload

\* C3: a non-empty candidate code left at the end of the scan makes
\* decompress fail, and nothing is written.
ResidualIsError ==
  (pc = "done" /\ dec.current_code # <<>>) =>
    /\ dec.result # "Ok"
    /\ dec.file = None

\* C4: compress on an empty buffer fails with the empty-input error before
\* the frequency table or the tree is built and creates no output.
EmptyInputRejected ==
  (data = <<>> /\ pc # "start") =>
    /\ pc = "done"
    /\ result = "Input file is empty"
    /\ steps = {}
    /\ huffman_tree = None
    /\ heap = <<>>
    /\ out_file = None

EmptyInputWitness == data = <<>> /\ pc = "done" /\ result = "Input file is empty"

\* C5: the code table has one non-empty code of '0'/'1' per distinct input
\* byte, no code is a prefix of another byte's code, and inverting the
\* table keeps every entry.
PrefixFree ==
  Compressed =>
    /\ DOMAIN codes = Range(data)
    /\ \A b \in DOMAIN codes :
         /\ codes[b] # <<>>
         /\ Range(codes[b]) \subseteq {Ch0, Ch1}
    /\ \A a, b \in DOMAIN codes : a # b => ~IsPrefix(codes[a], codes[b])
    /\ Cardinality(DOMAIN ReverseCodes(codes)) = Cardinality(DOMAIN codes)

PrefixFreeWitness ==
  /\ pc = "compressed"
  /\ Cardinality(DOMAIN codes) >= 3
  /\ \E a, b \in DOMAIN codes : Len(codes[a]) < Len(codes[b])

RECURSIVE SumCodeLens(_, _)
SumCodeLens(d, cs) ==
  IF d = <<>> THEN 0 ELSE Len(cs[Head(d)]) + SumCodeLens(Tail(d), cs)

\* C6: original_bit_count is the sum of the code lengths of the input
\* bytes, the payload has ceil(original_bit_count / 8) bytes, the padding
\* is 0..7 bits and every padding bit is zero.
BitCountAccounting ==
  Compressed =>
    LET c == out_file[1]
        header_len == FromLe(SubSeq(c, 1, 4))
        header == DeserializeHeader(SubSeq(c, 5, 4 + header_len))
        payload == PayloadOf(c)
        padding == Len(payload) * 8 - header.original_bit_count
    IN  /\ header.ok
        /\ header.original_bit_count = SumCodeLens(data, codes)
        /\ Len(payload) = (header.original_bit_count + 7) \div 8
        /\ padding \in 0..7
        /\ payload[Len(payload)] % Pow2(padding) = 0

BitCountWitness ==
  /\ pc = "compressed"
  /\ original_bit_count > 8
  /\ original_bit_count % 8 # 0

\* C7: for an input of one repeated byte the tree is a single leaf, the
\* byte's code is "0", original_bit_count is the input length, and the
\* round trip gives back the input.
SingleSymbol ==
  Distinct = 1 =>
    /\ pc \in {"encode", "compressed", "done"} =>
         huffman_tree = Some(Leaf(data[1], Len(data)))
    /\ Compressed =>
         /\ codes = [b \in {data[1]} |-> <<Ch0>>]
         /\ original_bit_count = Len(data)
    /\ DecodedIntact => (dec.result = "Ok" /\ dec.file = Some(data))

SingleSymbolWitness ==
  /\ Distinct = 1
  /\ Len(data) >= 2
  /\ DecodedIntact
  /\ dec.file = Some(data)

Malformed == {"Compressed file too small", "Invalid compressed file format"}

\* C8: on a buffer shorter than 4 bytes, or shorter than 4 + header_len,
\* decompress fails with the malformed-container error before the header
\* is deserialized, indexes nothing past the end and writes no output; a
\* container without its last byte never makes it panic.
MalformedFraming ==
  (pc = "done" /\ result = "Ok") =>
    /\ (\/ Len(compressed_data) < 4
        \/ Len(compressed_data) < 4 + FromLe(SubSeq(compressed_data, 1, 4))) =>
         /\ dec.result \in Malformed
         /\ dec.stage \in {"length", "header_len"}
         /\ dec.file = None
    /\ compressed_data = SubSeq(out_file[1], 1, Len(out_file[1]) - 1) =>
         dec.result # "panic"

MalformedFramingWitness ==
  /\ pc = "done"
  /\ result = "Ok"
  /\ Len(compressed_data) >= 4
  /\ FromLe(SubSeq(compressed_data, 1, 4)) <= Len(compressed_data)
  /\ Len(compressed_data) < 4 + FromLe(SubSeq(compressed_data, 1, 4))
  /\ dec.result = "Invalid compressed file format"

\* the depth of every leaf of a tree, weighted by the leaf's frequency
RECURSIVE WeightedDepth(_, _)
WeightedDepth(node, depth) ==
  IF node = None
    THEN 0
    ELSE IF node[1].char_val # None
           THEN node[1].freq * depth
           ELSE WeightedDepth(node[1].left, depth + 1)
                  + WeightedDepth(node[1].right, depth + 1)

RECURSIVE SumOver(_, _)
SumOver(f, S) ==
  IF S = {} THEN 0 ELSE LET x == CHOOSE y \in S : TRUE IN f[x] + SumOver(f, S \ {x})

\* A prefix-free binary code with lengths l exists exactly when
\* sum 2^-l[b] <= 1 (Kraft); an optimal one has no length above n - 1.
KraftLengths(S) ==
  LET n == Cardinality(S)
  IN  {l \in [S -> 1..(n - 1)] :
         SumOver([b \in S |-> Pow2(n - 1 - l[b])], S) <= Pow2(n - 1)}

Cost(freq, l) == SumOver([b \in DOMAIN freq |-> freq[b] * l[b]], DOMAIN freq)

MinCost(freq) ==
  LET costs == {Cost(freq, l) : l \in KraftLengths(DOMAIN freq)}
  IN  CHOOSE m \in costs : \A k \in costs : m <= k

\* C9: with two or more distinct bytes the tree's weighted code length,
\* which is original_bit_count, is the least of any prefix-free binary
\* code for the frequencies, whatever the ties; {a:4, b:3, c:2} gives
\* lengths 1, 2, 2.
OptimalLengths ==
  /\ (pc = "encode" /\ Distinct >= 2) =>
       WeightedDepth(huffman_tree, 0) = MinCost(frequency_table)
  /\ (pc = "compressed" /\ Distinct >= 2) =>
       /\ original_bit_count = WeightedDepth(huffman_tree, 0)
       /\ data = ExampleAbc =>
            (Len(codes[97]) = 1 /\ Len(codes[98]) = 2 /\ Len(codes[99]) = 2)

OptimalLengthsWitness ==
  /\ pc = "compressed"
  /\ data = ExampleAbc
  /\ original_bit_count = 14

RECURSIVE LeavesOf(_)
LeavesOf(node) ==
  IF node.char_val # None
    THEN <<node.char_val[1]>>
    ELSE LeavesOf(node.left[1]) \o LeavesOf(node.right[1])

HeapLeaves == Concat([i \in DOMAIN heap |-> LeavesOf(heap[i])])

HeapFreq == SumOver([i \in DOMAIN heap |-> heap[i].freq], DOMAIN heap)

\* C10: in every state of the merge loop the leaves under the heap's nodes
\* are the distinct input bytes, each once, and the nodes' frequencies sum
\* to the input length; each iteration replaces two nodes by one, so after
\* n - 1 merges one root is left, with frequency the input length and n
\* leaves.
MergeLoopInvariant ==
  LET n == Cardinality(DOMAIN frequency_table)
  IN  /\ pc = "merge" =>
           /\ n >= 2
           /\ Len(HeapLeaves) = n
           /\ Range(HeapLeaves) = Range(data)
           /\ HeapFreq = Len(data)
           /\ Len(heap) = n - merges
      /\ (pc = "encode" /\ n >= 2) =>
           /\ merges = n - 1
           /\ heap = <<>>
           /\ huffman_tree # None
           /\ huffman_tree[1].freq = Len(data)
           /\ Len(LeavesOf(huffman_tree[1])) = n
           /\ Range(LeavesOf(huffman_tree[1])) = Range(data)

MergeLoopWitness ==
  /\ pc = "merge"
  /\ merges >= 2
  /\ Len(heap) >= 2

====
